---- MODULE Spec2Model ----
(***************************************************************************)
(* The scraping pipeline of app.py / scraper.py, and the direct-testing    *)
(* program of scrap.py, as a state machine.                                *)
(*                                                                         *)
(* entry = "app": one run of the `if start_btn:` handler of app.py, that   *)
(* is the robots.txt gate, the first-page fetch and CAPTCHA check, the     *)
(* call of multi_page_scrape and its loop.  entry = "scrap": one run of    *)
(* the `__main__` block of scrap.py.  The network is the environment:      *)
(* every fetch draws its outcome (an error or a document) from a bounded   *)
(* set.                                                                    *)
(*                                                                         *)
(* A document is the abstraction of an HTML string by exactly the          *)
(* features the code inspects:                                             *)
(*   widget   soup.select(<captcha widget selectors>) is non-empty         *)
(*   keyword  the visible text contains one of the captcha keywords        *)
(*   tables   the row count of each <table> pandas.read_html finds         *)
(*   texts    the number of h1..h3 / p elements with non-empty text        *)
(*   anchors  the <a> elements: does the string match the "next" pattern,  *)
(*            and the href attribute                                       *)
(*   relnext  the href of the first <link rel=next> (absent: no such link) *)
(*   sel      what the configured CSS selector matches in this document    *)
(* A DataFrame is abstracted by its number of rows.                        *)
(***************************************************************************)
EXTENDS Integers, Sequences, FiniteSets, TLC

\* Largest max_pages the model draws (app.py lets the user choose 1..100).
MaxPages == 3
\* Number of distinct page URLs of the modelled site.
NumUrls == 2

URLs == 1..NumUrls
\* None / the blank string, where the code has a URL-or-nothing value.
NoUrl == 0

----------------------------------------------------------------------------
(* Documents *)

Hrefs ==
    {[kind |-> k, to |-> NoUrl] : k \in {"absent", "empty", "fragment"}}
        \cup {[kind |-> "path", to |-> j] : j \in URLs}

\* A truthy href: the attribute is there and is not the empty string.
Truthy(href) == href.kind \notin {"absent", "empty"}

Anchors == [next : BOOLEAN, href : Hrefs]

AnchorLists == {<<>>} \cup {<<a>> : a \in Anchors}

TableShapes == {<<>>, <<0>>, <<1>>}

RelNexts == {h \in Hrefs : h.kind # "empty"}

\* The empty string as markup.
EmptyMarkup ==
    [widget |-> FALSE, keyword |-> FALSE, tables |-> <<>>, texts |-> 0,
     anchors |-> <<>>, relnext |-> [kind |-> "absent", to |-> NoUrl],
     sel |-> "none"]

\* The documents the network can answer with.  Both callers of
\* detect_captcha_from_html leave at once when it returns True (app.py line
\* 82, scraper.py line 247) and read nothing else of such a document, so the
\* documents with a challenge are drawn with no other content.
\* (A selector can match a <table> only in a document that has one.)
Docs ==
    [widget : {FALSE}, keyword : {FALSE}, tables : TableShapes, texts : 0..1,
     anchors : AnchorLists, relnext : RelNexts,
     sel : {"none", "blank", "text"}]
        \cup [widget : {FALSE}, keyword : {FALSE},
              tables : TableShapes \ {<<>>}, texts : 0..1,
              anchors : AnchorLists, relnext : RelNexts, sel : {"table"}]
        \cup {[EmptyMarkup EXCEPT !.widget = w, !.keyword = k] :
                  w \in BOOLEAN, k \in BOOLEAN}

RECURSIVE SumSeq(_)
SumSeq(s) == IF s = <<>> THEN 0 ELSE Head(s) + SumSeq(Tail(s))

----------------------------------------------------------------------------
(* Pure functions of scraper.py *)

\* The outcomes of requests.get(robots_url): an exception, or a response with
\* a status and the three substring tests made on its lower-cased body.
RobotsResponses ==
    {[kind |-> "error", status |-> 0, disallow |-> FALSE, ua_star |-> FALSE,
      ua_own |-> FALSE]}
        \cup [kind : {"http"}, status : {200, 404}, disallow : BOOLEAN,
              ua_star : BOOLEAN, ua_own : BOOLEAN]

can_fetch_robots(r) ==
    IF r.kind = "error"
    THEN [allowed |-> TRUE, reason |-> "robots.txt tidak bisa diambil"]
    ELSE IF r.status # 200
    THEN [allowed |-> TRUE, reason |-> "robots.txt tidak tersedia/200"]
    ELSE IF r.disallow /\ (r.ua_star \/ r.ua_own)
    THEN [allowed |-> FALSE, reason |-> "Disallow: / untuk user-agent"]
    ELSE [allowed |-> TRUE, reason |-> "allowed"]

detect_captcha_from_html(html) ==
    IF html = EmptyMarkup THEN FALSE
    ELSE IF html.widget THEN TRUE
    ELSE html.keyword

\* The number of rows of the DataFrame extract_by_selector returns.
extract_by_selector(html) ==
    CASE html.sel = "none" -> 0
      [] html.sel = "table" -> SumSeq(html.tables)
      [] html.sel = "blank" -> 0
      [] html.sel = "text" -> 1

\* The number of rows of the DataFrame auto_extract returns.
auto_extract(html) ==
    IF html.tables # <<>>
    THEN SumSeq(html.tables)
    ELSE html.texts
         + Cardinality({k \in DOMAIN html.anchors :
                            html.anchors[k].href.kind # "absent"})

\* urllib.parse.urljoin on the hrefs of the model: a bare fragment resolves
\* to the base document, a path to the page it names.
urljoin(base, href) ==
    CASE href.kind = "path" -> href.to
      [] href.kind = "fragment" -> base
      [] OTHER -> base

_find_next_page_url(html, current_url) ==
    LET candidates == {k \in DOMAIN html.anchors :
                          html.anchors[k].next /\ Truthy(html.anchors[k].href)}
        first == CHOOSE k \in candidates : \A m \in candidates : k <= m
    IN  IF candidates # {}
        THEN urljoin(current_url, html.anchors[first].href)
        ELSE IF Truthy(html.relnext)
        THEN urljoin(current_url, html.relnext)
        ELSE NoUrl

\* The extraction step of the loop body: the selector when one is configured,
\* the automatic extraction when there is none or when it found nothing.
Extract(html, sel) ==
    IF sel
    THEN IF extract_by_selector(html) = 0
         THEN auto_extract(html)
         ELSE extract_by_selector(html)
    ELSE auto_extract(html)

----------------------------------------------------------------------------
(* State *)

VARIABLES
    \* which program runs: "app" (app.py) or "scrap" (scrap.py's __main__)
    entry,
    \* the sidebar inputs and the URL box of app.py
    url, max_pages, use_playwright, delay, selector, follow_pagination,
    \* the handler's position and how it ended
    pc, stop_reason,
    \* the pair can_fetch_robots returned (reason "unset": not called yet)
    allowed, reason,
    \* the rendered fetch in progress: who called it, the browser, the driver
    caller, browser, playwright,
    \* the locals of multi_page_scrape (nxt: NoUrl until the resolver ran)
    current, i, dfs, nxt,
    \* scrap.py: the markup its fetch holds, "none", "page" or "error_page"
    html,
    \* what multi_page_scrape returned
    result,
    \* history: the URLs multi_page_scrape fetched, in order
    fetched,
    \* history: the rows extraction produced for each page it processed
    yield,
    \* history: the first-page fetch of app.py was started
    first_fetched,
    \* history: the iteration whose page the detector flagged (0: none)
    captcha_at,
    \* history: calls of _find_next_page_url in the loop
    resolver_calls,
    \* history: calls of time.sleep in the loop
    sleeps,
    \* history: the last network/timer operation of the loop
    last_op,
    \* history: the failure a fetch met: "none", "transport" (the HTTP GET),
    \* "browser" (launch, new_context, new_page) or "render" (goto, the settle
    \* wait, content)
    fetch_error,
    \* history: the iteration of that failure (0: the first-page fetch)
    failed_at

config == <<entry, url, max_pages, use_playwright, delay, selector, follow_pagination>>
render == <<caller, browser, playwright>>
locals == <<current, i, dfs, nxt>>
history == <<fetched, yield, first_fetched, captcha_at, resolver_calls,
             sleeps, last_op, fetch_error, failed_at>>
gate == <<allowed, reason>>
vars == <<config, pc, stop_reason, gate, render, locals, html, result,
          history>>

NoResult == [kind |-> "none", batches |-> <<>>]

\* app.py: the widgets' ranges; the URL box is blank or holds the seed URL,
\* which is numbered 1 (nothing in the code tells one URL from another but
\* equality).  scrap.py: its one URL; the inputs of app.py are not read and
\* stand at the defaults of multi_page_scrape.
Init ==
    /\ entry \in {"app", "scrap"}
    /\ IF entry = "app"
       THEN /\ url \in {NoUrl, 1}
            /\ max_pages \in 1..MaxPages
            /\ use_playwright \in BOOLEAN
            /\ delay \in {0, 1}
            /\ selector \in BOOLEAN
            /\ follow_pagination \in BOOLEAN
            /\ pc = "clicked"
       ELSE /\ url = 1
            /\ max_pages = MaxPages
            /\ use_playwright = TRUE
            /\ delay = 1
            /\ selector = FALSE
            /\ follow_pagination = TRUE
            /\ pc = "main"
    /\ html = "none"
    /\ nxt = NoUrl
    /\ stop_reason = "none"
    /\ allowed = FALSE
    /\ reason = "unset"
    /\ caller = "none"
    /\ browser = "none"
    /\ playwright = "stopped"
    /\ current = NoUrl
    /\ i = 0
    /\ dfs = <<>>
    /\ result = NoResult
    /\ fetched = <<>>
    /\ yield = <<>>
    /\ first_fetched = FALSE
    /\ captcha_at = 0
    /\ resolver_calls = 0
    /\ sleeps = 0
    /\ last_op = "none"
    /\ fetch_error = "none"
    /\ failed_at = 0

----------------------------------------------------------------------------
(* app.py: the start button's handler up to the call of multi_page_scrape *)

\* `if not url.strip(): st.warning(...); st.stop()`
Click ==
    /\ pc = "clicked"
    /\ IF url = NoUrl
       THEN pc' = "stopped" /\ stop_reason' = "blank_url"
       ELSE pc' = "robots" /\ UNCHANGED stop_reason
    /\ UNCHANGED <<config, gate, render, locals, html, result, history>>

\* A faulty Blocked: the handler forgets the gate.
BlockedNever(decision) == FALSE

\* `if not allowed:` of the handler.
Blocked(decision) == ~decision.allowed

\* `allowed, reason = can_fetch_robots(url, ...)`, then the gate.
RobotsCheck ==
    /\ pc = "robots"
    /\ \E r \in RobotsResponses :
          LET decision == can_fetch_robots(r)
          IN  /\ allowed' = decision.allowed
              /\ reason' = decision.reason
              /\ IF Blocked(decision)
                 THEN pc' = "stopped" /\ stop_reason' = "robots"
                 ELSE pc' = "first_fetch" /\ UNCHANGED stop_reason
    /\ UNCHANGED <<config, render, locals, html, result, history>>

\* An exception leaves a fetch of scraper.py: the first-page fetch reports it
\* and stops; multi_page_scrape lets it through to the handler's `except`,
\* which reports it and stops, and no value is bound to `df`.
Raise(who) ==
    /\ pc' = "stopped"
    /\ stop_reason' = IF who = "first" THEN "first_error" ELSE "scrape_error"

\* `if detect_captcha_from_html(html_first):` of the handler.
FirstCheck(markup) ==
    IF detect_captcha_from_html(markup)
    THEN pc' = "stopped" /\ stop_reason' = "first_captcha"
    ELSE pc' = "scrape" /\ UNCHANGED stop_reason

\* app.py lines 87-97 entering multi_page_scrape, lines 233-235.
CallCrawl ==
    /\ pc = "scrape"
    /\ pc' = "loop"
    /\ current' = url
    /\ i' = 0
    /\ dfs' = <<>>
    /\ UNCHANGED <<config, stop_reason, gate, render, nxt, html, result,
                   history>>

----------------------------------------------------------------------------
(* scraper.py: the static fetch *)

\* The outcomes of requests.get + raise_for_status for a page.
StaticResponses ==
    {[ok |-> FALSE, html |-> EmptyMarkup]}
        \cup {[ok |-> TRUE, html |-> d] : d \in Docs}

\* What scrap.py's fetchers return for a failure: one <h1> with the message.
ErrorMarkup ==
    [widget |-> FALSE, keyword |-> FALSE, tables |-> <<>>, texts |-> 1,
     anchors |-> <<>>, relnext |-> [kind |-> "absent", to |-> NoUrl],
     sel |-> "none"]

\* A faulty scrape_with_requests: the failure is swallowed into an error
\* page, as scrap.py's function of the same name does.
scrape_with_requests_swallowing(resp) ==
    [raised |-> FALSE, html |-> IF resp.ok THEN resp.html ELSE ErrorMarkup]

\* scrape_with_requests: the body of a good response, an exception otherwise.
scrape_with_requests(resp) ==
    IF resp.ok
    THEN [raised |-> FALSE, html |-> resp.html]
    ELSE [raised |-> TRUE, html |-> EmptyMarkup]

----------------------------------------------------------------------------
(* scraper.py: the loop of multi_page_scrape *)

\* A faulty InRange: the bound is off by one.
InRangeInclusive(k, n) == k <= n

\* `for i in range(max_pages)`: another iteration starts.
InRange(k, n) == k < n

\* A faulty AppendBatch: the emptiness test is dropped.
AppendBatchAlways(d, rows, src, k) ==
    Append(d, [_source_url |-> src, rows |-> rows, page |-> k])

\* A faulty AppendBatch: the batch is stamped with the seed URL.
AppendBatchSeed(d, rows, src, k) ==
    IF rows # 0
    THEN Append(d, [_source_url |-> url, rows |-> rows, page |-> k])
    ELSE d

\* `if not df.empty: df.insert(0, "_source_url", current); dfs.append(df)`
\* (page: the iteration that made the batch, kept for the history).
AppendBatch(d, rows, src, k) ==
    IF rows # 0
    THEN Append(d, [_source_url |-> src, rows |-> rows, page |-> k])
    ELSE d

\* A faulty Exhausted: only a missing link ends the loop.
ExhaustedNoneOnly(found, cur) == found = NoUrl

\* `if not nxt or nxt == current: break`
Exhausted(found, cur) == found = NoUrl \/ found = cur

\* A faulty Paginate: follow_pagination is not looked at.
PaginateAlways(markup) ==
    LET found == _find_next_page_url(markup, current)
    IN  /\ resolver_calls' = resolver_calls + 1
        /\ nxt' = found
        /\ IF Exhausted(found, current)
           THEN pc' = "assemble" /\ UNCHANGED current
           ELSE /\ current' = found
                /\ pc' = IF delay > 0 THEN "sleep" ELSE "loop"

\* Lines 263-273: the pagination step that ends an iteration.
Paginate(markup) ==
    IF ~follow_pagination
    THEN /\ pc' = "assemble"
         /\ UNCHANGED <<current, nxt, resolver_calls>>
    ELSE LET found == _find_next_page_url(markup, current)
         IN  /\ resolver_calls' = resolver_calls + 1
             /\ nxt' = found
             /\ IF Exhausted(found, current)
                THEN pc' = "assemble" /\ UNCHANGED current
                ELSE /\ current' = found
                     /\ pc' = IF delay > 0 THEN "sleep" ELSE "loop"

\* Lines 244-273: what one iteration does with the markup it fetched;
\* k is the iteration's number, counted from 1.
LoopBody(markup, k) ==
    IF detect_captcha_from_html(markup)
    THEN /\ captcha_at' = k
         /\ pc' = "assemble"
         /\ UNCHANGED <<current, dfs, nxt, yield, resolver_calls>>
    ELSE LET df == Extract(markup, selector)
         IN  /\ yield' = Append(yield, df)
             /\ dfs' = AppendBatch(dfs, df, current, k)
             /\ UNCHANGED captcha_at
             /\ Paginate(markup)

\* A fetch of scraper.py hands its markup back to whoever called it.
Return(who, markup, k) ==
    IF who = "first"
    THEN /\ FirstCheck(markup)
         /\ UNCHANGED <<locals, yield, captcha_at, resolver_calls>>
    ELSE /\ LoopBody(markup, k)
         /\ UNCHANGED <<stop_reason, i>>

\* app.py lines 72-78 with use_playwright off.
FirstFetchStatic ==
    /\ pc = "first_fetch"
    /\ ~use_playwright
    /\ first_fetched' = TRUE
    /\ \E resp \in StaticResponses :
          LET got == scrape_with_requests(resp)
          IN  /\ fetch_error' = IF resp.ok THEN fetch_error ELSE "transport"
              /\ IF got.raised
                 THEN /\ Raise("first")
                      /\ UNCHANGED <<locals, yield, captcha_at,
                                     resolver_calls>>
                 ELSE Return("first", got.html, 0)
    /\ UNCHANGED <<config, gate, render, html, result, fetched, sleeps,
                   last_op, failed_at>>

\* One iteration in static mode: lines 237-273 with use_playwright off.
IterateStatic ==
    /\ pc = "loop"
    /\ InRange(i, max_pages)
    /\ ~use_playwright
    /\ i' = i + 1
    /\ fetched' = Append(fetched, current)
    /\ last_op' = "fetch"
    /\ \E resp \in StaticResponses :
          LET got == scrape_with_requests(resp)
          IN  /\ fetch_error' = IF resp.ok THEN fetch_error ELSE "transport"
              /\ failed_at' = IF resp.ok THEN failed_at ELSE i + 1
              /\ IF got.raised
                 THEN /\ Raise("crawl")
                      /\ UNCHANGED <<current, dfs, nxt, yield, captcha_at,
                                     resolver_calls>>
                 ELSE /\ LoopBody(got.html, i + 1)
                      /\ UNCHANGED stop_reason
    /\ UNCHANGED <<config, gate, render, html, result, first_fetched, sleeps>>

----------------------------------------------------------------------------
(* scraper.py: the rendered fetch, one action per awaited call *)

\* app.py lines 72-73: the first-page fetch with use_playwright on.
FirstFetchRendered ==
    /\ pc = "first_fetch"
    /\ use_playwright
    /\ first_fetched' = TRUE
    /\ caller' = "first"
    /\ pc' = "pw_launch"
    /\ UNCHANGED <<config, stop_reason, gate, browser, playwright, locals,
                   html, result, fetched, yield, captcha_at, resolver_calls,
                   sleeps, last_op, fetch_error, failed_at>>

\* Lines 237-240: an iteration with use_playwright on starts its fetch.
IterateRendered ==
    /\ pc = "loop"
    /\ InRange(i, max_pages)
    /\ use_playwright
    /\ i' = i + 1
    /\ fetched' = Append(fetched, current)
    /\ last_op' = "fetch"
    /\ caller' = "crawl"
    /\ pc' = "pw_launch"
    /\ UNCHANGED <<config, stop_reason, gate, browser, playwright, current,
                   dfs, nxt, html, result, yield, first_fetched, captcha_at,
                   resolver_calls, sleeps, fetch_error, failed_at>>

\* An awaited call raises inside `async with async_playwright() as p:`.  No
\* handler is in the way: the `async with` stops the driver it started and the
\* exception leaves the fetch; the lines that follow, `await browser.close()`
\* among them, are not run.
RenderFails(what) ==
    /\ playwright' = "stopped"
    /\ fetch_error' = what
    /\ failed_at' = i
    /\ Raise(caller)
    /\ UNCHANGED <<config, gate, caller, browser, locals, html, result,
                   fetched, yield, first_fetched, captcha_at, resolver_calls,
                   sleeps, last_op>>

\* An awaited call between the launch and the capture succeeds.
RenderStep(to) ==
    /\ pc' = to
    /\ UNCHANGED <<config, stop_reason, gate, render, locals, html, result,
                   history>>

\* `async with async_playwright() as p: browser = await p.chromium.launch(...)`
PwLaunch ==
    /\ pc = "pw_launch"
    /\ \/ /\ playwright' = "started"
          /\ browser' = "open"
          /\ pc' = "pw_context"
          /\ UNCHANGED <<config, stop_reason, gate, caller, locals, html,
                         result, history>>
       \/ RenderFails("browser")

\* `context = await browser.new_context(...)`
PwNewContext ==
    /\ pc = "pw_context"
    /\ (RenderStep("pw_page") \/ RenderFails("browser"))

\* `page = await context.new_page()`
PwNewPage ==
    /\ pc = "pw_page"
    /\ (RenderStep("pw_goto") \/ RenderFails("browser"))

\* `await page.goto(url, wait_until=wait_until, timeout=timeout_ms)`
PwGoto ==
    /\ pc = "pw_goto"
    /\ (RenderStep("pw_wait") \/ RenderFails("render"))

\* `await page.wait_for_timeout(500)`
PwWait ==
    /\ pc = "pw_wait"
    /\ (RenderStep("pw_content") \/ RenderFails("render"))

\* `html = await page.content(); await browser.close(); return html`, the end
\* of the `async with`, and what the caller does with the markup.
PwContent ==
    /\ pc = "pw_content"
    /\ \/ /\ browser' = "closed"
          /\ playwright' = "stopped"
          /\ \E markup \in Docs : Return(caller, markup, i)
          /\ UNCHANGED <<config, gate, caller, html, result, fetched,
                         first_fetched, sleeps, last_op, fetch_error,
                         failed_at>>
       \/ RenderFails("render")

----------------------------------------------------------------------------
(* scraper.py: the rest of the loop and the result *)

\* `time.sleep(delay)`
Sleep ==
    /\ pc = "sleep"
    /\ sleeps' = sleeps + 1
    /\ last_op' = "sleep"
    /\ pc' = "loop"
    /\ UNCHANGED <<config, stop_reason, gate, render, locals, html, result,
                   fetched, yield, first_fetched, captcha_at, resolver_calls,
                   fetch_error, failed_at>>

\* The range is used up.
LoopExit ==
    /\ pc = "loop"
    /\ ~InRange(i, max_pages)
    /\ pc' = "assemble"
    /\ UNCHANGED <<config, stop_reason, gate, render, locals, html, result,
                   history>>

\* Lines 275-283: nothing, the merged table, or the list of batches when
\* pandas.concat raises.
Assemble ==
    /\ pc = "assemble"
    /\ IF dfs = <<>>
       THEN result' = [kind |-> "empty", batches |-> <<>>]
       ELSE \E merged \in BOOLEAN :
               result' = [kind |-> IF merged THEN "table" ELSE "list",
                          batches |-> dfs]
    /\ pc' = "show"
    /\ UNCHANGED <<config, stop_reason, gate, render, locals, html, history>>

----------------------------------------------------------------------------
(* scrap.py: the direct-testing program *)

\* scrap.py's scrape_with_requests: any failure becomes an error page.
MainRequests ==
    /\ pc = "main"
    /\ \E resp \in {TRUE, FALSE} :
          /\ html' = IF resp THEN "page" ELSE "error_page"
          /\ fetch_error' = IF resp THEN fetch_error ELSE "transport"
    /\ caller' = "main"
    /\ pc' = "sp_launch"
    /\ UNCHANGED <<config, stop_reason, gate, browser, playwright, locals,
                   result, fetched, yield, first_fetched, captcha_at,
                   resolver_calls, sleeps, last_op, failed_at>>

\* An awaited call outside the `try` raises: nothing catches it, the
\* `async with` stops the driver and the program ends with the traceback.
SpCrashes ==
    /\ playwright' = "stopped"
    /\ fetch_error' = "browser"
    /\ pc' = "stopped"
    /\ stop_reason' = "uncaught"
    /\ UNCHANGED <<config, gate, caller, browser, locals, html, result,
                   fetched, yield, first_fetched, captcha_at, resolver_calls,
                   sleeps, last_op, failed_at>>

\* An awaited call inside the `try` raises: `except Exception` makes the
\* error page and the fetch goes on to `await browser.close()`.
SpRecovers ==
    /\ html' = "error_page"
    /\ fetch_error' = "render"
    /\ pc' = "sp_close"
    /\ UNCHANGED <<config, stop_reason, gate, render, locals, result, fetched,
                   yield, first_fetched, captcha_at, resolver_calls, sleeps,
                   last_op, failed_at>>

\* `async with async_playwright() as p: browser = await p.chromium.launch(...)`
SpLaunch ==
    /\ pc = "sp_launch"
    /\ \/ /\ playwright' = "started"
          /\ browser' = "open"
          /\ html' = "none"
          /\ pc' = "sp_page"
          /\ UNCHANGED <<config, stop_reason, gate, caller, locals, result,
                         history>>
       \/ SpCrashes

\* `page = await browser.new_page()`
SpNewPage ==
    /\ pc = "sp_page"
    /\ (RenderStep("sp_goto") \/ SpCrashes)

\* `await page.goto(url, timeout=60000)`
SpGoto ==
    /\ pc = "sp_goto"
    /\ (RenderStep("sp_content") \/ SpRecovers)

\* `html = await page.content()`
SpContent ==
    /\ pc = "sp_content"
    /\ \/ /\ html' = "page"
          /\ pc' = "sp_close"
          /\ UNCHANGED <<config, stop_reason, gate, render, locals, result,
                         history>>
       \/ SpRecovers

\* `await browser.close(); return html`: __main__ goes on to
\* auto_extract_books, which fetches once more and ends the program.
SpClose ==
    /\ pc = "sp_close"
    /\ browser' = "closed"
    /\ playwright' = "stopped"
    /\ IF caller = "main"
       THEN caller' = "books" /\ pc' = "sp_launch"
       ELSE caller' = caller /\ pc' = "done"
    /\ UNCHANGED <<config, stop_reason, gate, locals, html, result, history>>

----------------------------------------------------------------------------

Next ==
    \/ Click
    \/ RobotsCheck
    \/ FirstFetchStatic
    \/ FirstFetchRendered
    \/ CallCrawl
    \/ IterateStatic
    \/ IterateRendered
    \/ PwLaunch
    \/ PwNewContext
    \/ PwNewPage
    \/ PwGoto
    \/ PwWait
    \/ PwContent
    \/ Sleep
    \/ LoopExit
    \/ Assemble
    \/ MainRequests
    \/ SpLaunch
    \/ SpNewPage
    \/ SpGoto
    \/ SpContent
    \/ SpClose

Spec == Init /\ [][Next]_vars

----------------------------------------------------------------------------
(* Properties *)

\* The crawl is over: multi_page_scrape left its loop, returned, or raised.
CrawlOver == pc \in {"assemble", "show"} \/ stop_reason = "scrape_error"

\* C1: when the robots check returned allowed = False, no page is fetched,
\* neither by the handler's first-page fetch nor by multi_page_scrape (static
\* or rendered: no browser is launched either), and there is no result.
BlockedMeansNoFetch ==
    (reason # "unset" /\ ~allowed) =>
        /\ ~first_fetched
        /\ fetched = <<>>
        /\ browser = "none"
        /\ playwright = "stopped"
        /\ dfs = <<>>
        /\ result = NoResult

BlockedWitness ==
    /\ reason = "Disallow: / untuk user-agent"
    /\ ~allowed
    /\ pc = "stopped"
    /\ stop_reason = "robots"

\* The pages before page k whose extraction was not empty.
NonEmptyBefore(k) == {j \in 1..(k - 1) : yield[j] > 0}

\* C2 as amended: when the detector flags the k-th fetched page, the loop
\* ends there (k pages fetched, none after), and the batches are exactly
\* those of the pages before k whose extraction was not empty, so at most
\* k-1 of them; that is what the result holds.
ChallengeKeepsNonEmptyBatches ==
    captcha_at > 0 =>
        /\ Len(fetched) = captcha_at
        /\ Len(yield) = captcha_at - 1
        /\ {dfs[n].page : n \in DOMAIN dfs} = NonEmptyBefore(captcha_at)
        /\ Len(dfs) = Cardinality(NonEmptyBefore(captcha_at))
        /\ pc \in {"assemble", "show"}
        /\ (pc = "show" => result.batches = dfs)

ChallengeWitness ==
    /\ captcha_at = 3
    /\ pc = "show"
    /\ Len(result.batches) = 1
    /\ result.batches[1].page = 2

\* C2 as stated: when the detector flags the k-th fetched page, the result
\* holds exactly k-1 batches and no page is fetched after page k.
ChallengeKeepsAllPriorBatches ==
    captcha_at > 0 =>
        /\ Len(fetched) = captcha_at
        /\ (pc = "show" => Len(result.batches) = captcha_at - 1)

\* C3: a navigation or render failure (goto, settle wait, content) of a
\* rendered fetch of the crawl does not abort the crawl: the fetch returns
\* markup and the iteration goes on to the challenge check and extraction of
\* that page.
RenderFailureRecovered ==
    (entry = "app" /\ caller = "crawl" /\ fetch_error = "render") =>
        /\ pc # "stopped"
        /\ stop_reason # "scrape_error"
        /\ (Len(yield) >= failed_at \/ captcha_at = failed_at)

\* The positions at which a rendered fetch is between its launch and its end.
Rendering ==
    {"pw_context", "pw_page", "pw_goto", "pw_wait", "pw_content",
     "sp_page", "sp_goto", "sp_content", "sp_close"}

BoundEnded ==
    /\ pc \in {"assemble", "show"}
    /\ Len(fetched) = max_pages
    /\ current # fetched[max_pages]

\* C5: multi_page_scrape never fetches more than max_pages pages, and when
\* the bound ends the loop the function returns what it accumulated.
FetchesBoundedByMaxPages ==
    /\ Len(fetched) <= max_pages
    /\ i <= max_pages
    /\ BoundEnded => stop_reason = "none"
    /\ (BoundEnded /\ pc = "show") =>
           (result.kind # "none" /\ result.batches = dfs)

\* Three pages out of a pagination cycle of two URLs, stopped by the bound.
BoundWitness ==
    /\ BoundEnded
    /\ pc = "show"
    /\ max_pages = 3
    /\ fetched[1] = fetched[3]
    /\ Len(result.batches) = 3

\* C6: with follow_pagination off and max_pages > 1, the loop fetches one
\* page and never calls _find_next_page_url.
NoFollowFetchesOnePage ==
    (entry = "app" /\ ~follow_pagination /\ max_pages > 1) =>
        /\ resolver_calls = 0
        /\ Len(fetched) <= 1
        /\ pc # "sleep"
        /\ CrawlOver => Len(fetched) = 1

NoFollowWitness ==
    /\ entry = "app"
    /\ ~follow_pagination
    /\ max_pages = 3
    /\ pc = "show"
    /\ Len(fetched) = 1
    /\ Len(result.batches) = 1

\* C7: the loop never fetches the same URL twice in a row; when the resolver
\* returned no URL, or the URL of the page just fetched, the loop is over and
\* no page was fetched after that one (so with no link on the seed page one
\* page is fetched, whatever max_pages).
ExhaustedPaginationStops ==
    /\ \A j \in 1..(Len(fetched) - 1) : fetched[j] # fetched[j + 1]
    /\ (resolver_calls > 0 /\ nxt = NoUrl) =>
           (pc \in {"assemble", "show"} /\ Len(fetched) = resolver_calls)
    /\ (resolver_calls > 0 /\ Len(fetched) = resolver_calls
            /\ nxt = fetched[resolver_calls]) =>
           pc \in {"assemble", "show"}

\* The second page links to itself; the third is never fetched.
SelfLinkWitness ==
    /\ max_pages = 3
    /\ pc = "show"
    /\ resolver_calls = 2
    /\ Len(fetched) = 2
    /\ nxt = fetched[2]

\* C8: in static mode a transport error on the fetch of page k of the crawl
\* ends the run with that error: page k is the last page fetched and
\* multi_page_scrape returns nothing, the earlier batches included.
TransportErrorAbortsCrawl ==
    (entry = "app" /\ fetch_error = "transport" /\ failed_at > 0) =>
        /\ pc = "stopped"
        /\ stop_reason = "scrape_error"
        /\ result = NoResult
        /\ Len(fetched) = failed_at

TransportErrorWitness ==
    /\ entry = "app"
    /\ fetch_error = "transport"
    /\ failed_at = 2
    /\ Len(dfs) = 1
    /\ pc = "stopped"

\* C9: every accumulated batch has rows, is the extraction of one fetched
\* page and carries the URL fetched for that page as its _source_url; the
\* batches are in fetch order, at most one per page.
BatchesCarrySource ==
    \A n \in DOMAIN dfs :
        /\ dfs[n].rows > 0
        /\ dfs[n].page \in 1..Len(fetched)
        /\ dfs[n].page \in 1..Len(yield)
        /\ dfs[n].rows = yield[dfs[n].page]
        /\ dfs[n]._source_url = fetched[dfs[n].page]
        /\ \A m \in DOMAIN dfs : n < m => dfs[n].page < dfs[m].page

\* Batches of pages 1 and 3; page 2 gave nothing.
BatchesWitness ==
    /\ Len(dfs) = 2
    /\ dfs[1].page = 1
    /\ dfs[2].page = 3
    /\ pc = "show"

\* C10: no politeness pause happens after the last page the crawl fetches:
\* when the loop is over, its last operation was not a sleep.
PauseOnlyBeforeNextFetch ==
    pc \in {"assemble", "show"} => last_op # "sleep"

====
